---------------------------- MODULE Spec2Model ----------------------------
(***************************************************************************)
(* A model of the card matching game of src/src/game.rs: the Game state    *)
(* machine (Game::update), the input parsers, the 2D indexer Idx2d and     *)
(* the construction of the Board.                                          *)
(*                                                                         *)
(* One step of the model is one iteration of the loop of main              *)
(* (src/src/main.rs:12-22): grab_input overwrites user_input with a line   *)
(* and update consumes it.  Nothing reads user_input between an update and *)
(* the next grab_input, so the field is the parameter line of the actions. *)
(* Text is a sequence of one-character strings.  i32 values are integers   *)
(* kept within 32 bits; a usize obtained by a cast of a negative i32 n is  *)
(* represented by n itself (it stands for 2^64 + n).                       *)
(* The variable debug is the build profile: with debug assertions and      *)
(* overflow checks (cargo's dev profile) or without them (release).        *)
(***************************************************************************)
EXTENDS Integers, Sequences, FiniteSets, TLC

VARIABLES state, guesses, idx, board, discovered,
          revealed1, revealed2, error, debug, panicked

vars == <<state, guesses, idx, board, discovered,
          revealed1, revealed2, error, debug, panicked>>

(***************************************************************************)
(* Bounds of the model.                                                    *)
(***************************************************************************)
\* The plain number texts of the input lines are 0..MaxCoord.
MaxCoord == 2
\* Boards of more cells than this are not constructed.
MaxArea == 4
\* The guess counter stops the game at this value.
MaxGuesses == 2
\* Board::new on its own is given sides of 1..MaxSide and not more than
\* MaxCells cells.
MaxSide == 3
MaxCells == 6

(***************************************************************************)
(* i32 arithmetic.                                                         *)
(***************************************************************************)
MaxI32 == 2147483647
MinI32 == (-MaxI32) - 1

\* Byte i (0 = lowest) of the two's complement representation of n.
Limb(n, i) == (n \div (256 ^ i)) % 256

\* Column k of the long multiplication of the bytes of a and b: the sum of
\* byte j of a times byte k - j of b for j in i..k.
RECURSIVE Column(_, _, _, _)
Column(a, b, k, i) ==
    IF i > k THEN 0 ELSE Limb(a, i) * Limb(b, k - i) + Column(a, b, k, i + 1)

\* Column k with the carry of the columns below it.
RECURSIVE Carried(_, _, _)
Carried(a, b, k) ==
    Column(a, b, k, 0) + (IF k = 0 THEN 0 ELSE Carried(a, b, k - 1) \div 256)

\* A byte read as the top byte of a two's complement number.
SignedByte(v) == IF v >= 128 THEN v - 256 ELSE v

\* The low 32 bits of a * b, as a signed value.
LowBitsOfProduct(a, b) ==
    SignedByte(Carried(a, b, 3) % 256) * 16777216
    + (Carried(a, b, 2) % 256) * 65536
    + (Carried(a, b, 1) % 256) * 256
    + (Carried(a, b, 0) % 256)

\* Whether the exact product a * b is outside the i32 range.
MulOverflows(a, b) ==
    IF a = 0 \/ b = 0 THEN FALSE
    ELSE IF a > 0 /\ b > 0 THEN a > MaxI32 \div b
    ELSE IF a < 0 /\ b < 0 THEN a < MaxI32 \div b
    ELSE IF a > 0 THEN b < (MinI32 \div a) + (IF MinI32 % a = 0 THEN 0 ELSE 1)
    ELSE a < (MinI32 \div b) + (IF MinI32 % b = 0 THEN 0 ELSE 1)

\* i32::wrapping_mul: the product when it fits, else its low 32 bits.
WrappingMul(a, b) == IF MulOverflows(a, b) THEN LowBitsOfProduct(a, b) ELSE a * b

\* a * b on i32: with overflow checks an overflow panics, without them the
\* product wraps.
Mul(a, b, dbg) ==
    IF MulOverflows(a, b) /\ dbg THEN [ok |-> FALSE, val |-> 0]
    ELSE [ok |-> TRUE, val |-> WrappingMul(a, b)]

\* a - 1 on i32.
Dec(a, dbg) ==
    IF a = MinI32
    THEN (IF dbg THEN [ok |-> FALSE, val |-> 0] ELSE [ok |-> TRUE, val |-> MaxI32])
    ELSE [ok |-> TRUE, val |-> a - 1]

\* a + b on i32.
Add(a, b, dbg) ==
    LET over == (b > 0 /\ a > MaxI32 - b) \/ (b < 0 /\ a < MinI32 - b)
        wrapped == IF b > 0 THEN (a - MaxI32 - 1) + (b + MinI32)
                             ELSE (a + MaxI32 + 1) + (b - MinI32)
    IN  IF ~over THEN [ok |-> TRUE, val |-> a + b]
        ELSE IF dbg THEN [ok |-> FALSE, val |-> 0]
        ELSE [ok |-> TRUE, val |-> wrapped]

\* i < len on usize, where a negative i stands for 2^64 + i.
UsizeLt(i, len) == i >= 0 /\ i < len


(***************************************************************************)
(* Results and errors (src/src/error.rs).                                  *)
(***************************************************************************)
Ok(v) == [kind |-> "Ok", val |-> v]
Err(e) == [kind |-> "Err", err |-> e]
\* The function did not return: a panic unwinds through update and main.
Panic == [kind |-> "Panic"]

AlreadyRevealed(px, py) == [type |-> "AlreadyRevealed", x |-> px, y |-> py]
EmptyInput == [type |-> "EmptyInput"]
CoordinateOverflow(a, m) == [type |-> "CoordinateOverflow", axis |-> a, max |-> m]
CoordinateUnderflow(a) == [type |-> "CoordinateUnderflow", axis |-> a]
NotEnoughCardTypes(m) == [type |-> "NotEnoughCardTypes", max |-> m]
OddBoardCells == [type |-> "OddBoardCells"]
UnparsableInput == [type |-> "UnparsableInput"]

\* Option<T>: None is the empty sequence, Some(v) the sequence of v alone.
None == << >>
Some(v) == <<v>>

Vec2(px, py) == [x |-> px, y |-> py]

(***************************************************************************)
(* Text: str::trim, str::split, str::to_lowercase, str::parse::<i32>.      *)
(***************************************************************************)
Digits == <<"0", "1", "2", "3", "4", "5", "6", "7", "8", "9">>

IsDigit(c) == \E i \in 1..10 : Digits[i] = c

DigitVal(c) == (CHOOSE i \in 1..10 : Digits[i] = c) - 1

IsWhitespace(c) == c \in {" ", "\n", "\t", "\r"}

RECURSIVE TrimStart(_)
TrimStart(s) ==
    IF s # << >> /\ IsWhitespace(Head(s)) THEN TrimStart(Tail(s)) ELSE s

RECURSIVE TrimEnd(_)
TrimEnd(s) ==
    IF s # << >> /\ IsWhitespace(s[Len(s)])
    THEN TrimEnd(SubSeq(s, 1, Len(s) - 1)) ELSE s

Trim(s) == TrimEnd(TrimStart(s))

\* The letters of the input alphabet that have an upper case form.
ToLowerChar(c) == IF c = "Y" THEN "y" ELSE IF c = "N" THEN "n" ELSE c

ToLowercase(s) == [i \in 1..Len(s) |-> ToLowerChar(s[i])]

IsSeparator(c) == c = "," \/ c = ";"

\* s.split(|c| c == ',' || c == ';'): the parts between the separators; one
\* part more than there are separators.
RECURSIVE SplitFrom(_, _)
SplitFrom(s, part) ==
    IF s = << >> THEN <<part>>
    ELSE IF IsSeparator(Head(s)) THEN <<part>> \o SplitFrom(Tail(s), << >>)
    ELSE SplitFrom(Tail(s), Append(part, Head(s)))

Split(s) == SplitFrom(s, << >>)

\* The digits of s accumulated from the left as i32::from_str does: by
\* checked multiplication and checked addition (subtraction for a negative
\* number); 0 result with ok FALSE on an invalid digit or an overflow.
RECURSIVE Accumulate(_, _, _)
Accumulate(s, acc, neg) ==
    IF s = << >> THEN [ok |-> TRUE, val |-> acc]
    ELSE IF ~IsDigit(Head(s)) THEN [ok |-> FALSE, val |-> 0]
    ELSE LET d == DigitVal(Head(s))
         IN  IF neg
             THEN IF acc < (MinI32 + d) \div 10 + (IF (MinI32 + d) % 10 = 0 THEN 0 ELSE 1)
                  THEN [ok |-> FALSE, val |-> 0]
                  ELSE Accumulate(Tail(s), acc * 10 - d, neg)
             ELSE IF acc > (MaxI32 - d) \div 10
                  THEN [ok |-> FALSE, val |-> 0]
                  ELSE Accumulate(Tail(s), acc * 10 + d, neg)

\* str::parse::<i32>: an optional sign, then at least one digit.
ParseI32(s) ==
    IF s = << >> THEN [ok |-> FALSE, val |-> 0]
    ELSE IF Head(s) \in {"+", "-"}
         THEN IF Tail(s) = << >> THEN [ok |-> FALSE, val |-> 0]
              ELSE Accumulate(Tail(s), 0, Head(s) = "-")
         ELSE Accumulate(s, 0, FALSE)

\* Game::parse_pair from the two parsed numbers on.
PairOf(px, py) ==
    IF ~px.ok THEN Err(UnparsableInput)
    ELSE IF ~py.ok THEN Err(UnparsableInput)
    ELSE Ok(Vec2(px.val, py.val))

\* Game::parse_pair from the parts of the split on.
PairOfParts(parts) ==
    IF Len(parts) < 2 THEN Err(UnparsableInput)
    ELSE PairOf(ParseI32(Trim(parts[1])), ParseI32(Trim(parts[2])))

\* Game::parse_pair
parse_pair(s) == IF s = << >> THEN Err(EmptyInput) ELSE PairOfParts(Split(s))

\* The match of parse_yn with true for the default of the empty text.
MatchYn_DefaultYes(t) ==
    IF t = <<"y">> THEN Ok(TRUE)
    ELSE IF t = <<"n">> THEN Ok(FALSE)
    ELSE IF t = << >> THEN Ok(TRUE)
    ELSE Err(UnparsableInput)

\* The match of Game::parse_yn on the trimmed lower case text.
MatchYn(t) ==
    IF t = <<"y">> THEN Ok(TRUE)
    ELSE IF t = <<"n">> THEN Ok(FALSE)
    ELSE IF t = << >> THEN Ok(FALSE)
    ELSE Err(UnparsableInput)

\* Game::parse_yn
parse_yn(s) == MatchYn(Trim(ToLowercase(s)))

(***************************************************************************)
(* Idx2d                                                                   *)
(***************************************************************************)
Idx2d(sx, sy) == [size_x |-> sx, size_y |-> sy]

\* Idx2d::of with > for >= in the checks against the sizes.
IdxOf_inclusive(ix, c) ==
    IF c.x < 0 THEN Err(CoordinateUnderflow("x"))
    ELSE IF c.y < 0 THEN Err(CoordinateUnderflow("y"))
    ELSE IF c.x > ix.size_x THEN Err(CoordinateOverflow("x", ix.size_x))
    ELSE IF c.y > ix.size_y THEN Err(CoordinateOverflow("y", ix.size_y))
    ELSE Ok(c)

\* Idx2d::of, without the index it computes: parse_coords, its only caller,
\* drops the index and keeps the verdict.
IdxOf(ix, c) ==
    IF c.x < 0 THEN Err(CoordinateUnderflow("x"))
    ELSE IF c.y < 0 THEN Err(CoordinateUnderflow("y"))
    ELSE IF c.x >= ix.size_x THEN Err(CoordinateOverflow("x", ix.size_x))
    ELSE IF c.y >= ix.size_y THEN Err(CoordinateOverflow("y", ix.size_y))
    ELSE Ok(c)

\* The sum m + x of unchecked, m being the outcome of the product.
AddTo(m, x, dbg) == IF ~m.ok THEN m ELSE Add(m.val, x, dbg)

\* The outcome of i32 arithmetic as an index: the value, or a panic.
AsIndex(a) == IF a.ok THEN Ok(a.val) ELSE Panic

\* Idx2d::unchecked: (y * size_x + x) as usize.
Unchecked(ix, c, dbg) == AsIndex(AddTo(Mul(c.y, ix.size_x, dbg), c.x, dbg))

\* s[i] for the index i that unchecked computed: the element, or a panic
\* (index out of bounds, or no index).
Get(s, i) ==
    IF i.kind = "Panic" \/ ~UsizeLt(i.val, Len(s)) THEN Panic
    ELSE Ok(s[i.val + 1])

\* s[i] = v for the index i that unchecked computed, s being the outcome
\* of the statements before: the sequence after the assignment, or a panic.
SetAt(s, i, v) ==
    IF s.kind = "Panic" \/ i.kind = "Panic" THEN Panic
    ELSE IF ~UsizeLt(i.val, Len(s.val)) THEN Panic
    ELSE Ok([s.val EXCEPT ![i.val + 1] = v])

\* i / d and i % d on i32 for i >= 0 and d # 0 (Rust truncates the quotient).
DivI32(i, d) == IF d > 0 THEN i \div d ELSE -(i \div (-d))
RemI32(i, d) == IF d > 0 THEN i % d ELSE i % (-d)

\* Idx2d::iter_all, collected: the coordinates of the indices 0..max-1 in
\* row major order, max being size_x * size_y as the build computes it.
CoordsUpTo(max, ix) ==
    IF ~max.ok THEN Panic
    ELSE Ok([i \in 1..max.val |->
               Vec2(RemI32(i - 1, ix.size_x), DivI32(i - 1, ix.size_x))])

IterAll(ix, dbg) == CoordsUpTo(Mul(ix.size_x, ix.size_y, dbg), ix)

(***************************************************************************)
(* Board                                                                   *)
(***************************************************************************)
\* Board::CARD_CHARS has 55 distinct glyphs: glyph i (from 0) is modelled by
\* the number i + 1, and the placeholder '\0' of an unassigned cell by 0.
NumCardChars == 55
NulCard == 0
\* CARD_CHARS[i] read as the first glyph whatever i is.
CardChar_First(i) == 1
CardChar(i) == i + 1

\* Board::MAX_SIZE
MAX_SIZE == NumCardChars * 2

\* slice::chunks(k) of a sequence, collected; k > 0.
RECURSIVE Chunks(_, _)
Chunks(s, k) ==
    IF s = << >> THEN << >>
    ELSE IF Len(s) <= k THEN <<s>>
    ELSE <<SubSeq(s, 1, k)>> \o Chunks(SubSeq(s, k + 1, Len(s)), k)

\* The permutations of 1..n, as sequences: the outcomes of slice::shuffle.
Perms(n) == {p \in [1..n -> 1..n] : \A i, j \in 1..n : p[i] = p[j] => i = j}

\* The loop of Board::new over the zipped halves, from pair i (from 0) on:
\* both cells of pair i get the card CARD_CHARS[i].  cards is the outcome of
\* the iterations before.
RECURSIVE AssignCards(_, _, _, _, _, _)
AssignCards(cards, ix, first_half, second_half, i, dbg) ==
    IF cards.kind = "Panic" THEN Panic
    ELSE IF i >= Len(first_half) \/ i >= Len(second_half) THEN cards
    ELSE IF i >= NumCardChars THEN Panic
    ELSE AssignCards(
           SetAt(SetAt(cards, Unchecked(ix, first_half[i + 1], dbg), CardChar(i)),
                 Unchecked(ix, second_half[i + 1], dbg), CardChar(i)),
           ix, first_half, second_half, i + 1, dbg)

\* coords.shuffle: coordinate perm[i] of all comes to place i.
Shuffle(all, perm) ==
    IF all.kind = "Panic" THEN Panic
    ELSE Ok([i \in 1..Len(all.val) |-> all.val[perm[i]]])

\* The board with its cards, or the panic of the loop.
BoardOf(ix, cards) ==
    IF cards.kind = "Panic" THEN Panic ELSE Ok([idx |-> ix, cards |-> cards.val])

\* Board::new from the two halves on; fewer or more than two chunks make
\* try_into::<[_; 2]>().unwrap() panic.
BoardOfHalves(size, ix, halves, dbg) ==
    IF Len(halves) # 2 THEN Panic
    ELSE BoardOf(ix, AssignCards(Ok([i \in 1..size |-> NulCard]), ix,
                                 halves[1], halves[2], 0, dbg))

\* Board::new from the shuffled coordinates on; chunks(0) panics.
BoardOfCoords(size, ix, coords, dbg) ==
    IF coords.kind = "Panic" THEN Panic
    ELSE IF Len(coords.val) \div 2 = 0 THEN Panic
    ELSE BoardOfHalves(size, ix, Chunks(coords.val, Len(coords.val) \div 2), dbg)

\* Board::new from the product size_x * size_y on.  A negative product is
\* the size 2^64 + prod of vec!: capacity overflow.
BoardOfSize(prod, ix, perm, dbg) ==
    IF ~prod.ok THEN Panic
    ELSE IF dbg /\ ~(prod.val % 2 = 0) THEN Panic
    ELSE IF prod.val < 0 THEN Panic
    ELSE BoardOfCoords(prod.val, ix, Shuffle(IterAll(ix, dbg), perm), dbg)

\* Board::new, perm being the outcome of the shuffle.
BoardNew(size_x, size_y, perm, dbg) ==
    IF dbg /\ ~(size_x > 0) THEN Panic
    ELSE IF dbg /\ ~(size_y > 0) THEN Panic
    ELSE BoardOfSize(Mul(size_x, size_y, dbg), Idx2d(size_x, size_y), perm, dbg)

\* Board::default
BoardDefault == [idx |-> Idx2d(0, 0), cards |-> << >>]

\* Index<Vec2> for Board: the card at c, or a panic (index out of bounds).
BoardIndex(b, c, dbg) == Get(b.cards, Unchecked(b.idx, c, dbg))

(***************************************************************************)
(* The input lines: what read_line can leave in user_input.  A line ends   *)
(* with its terminator; at the end of the input read_line leaves the       *)
(* buffer empty.                                                           *)
(***************************************************************************)
Line(s) == s \o <<"\n">>

NumText(n) == <<Digits[n + 1]>>

PlainPairs == {Line(NumText(a) \o <<",">> \o NumText(b)) : a, b \in 0..MaxCoord}

OtherLines ==
    { << >>,                                   \* end of input
      Line(<< >>),                             \* an empty line
      Line(<<" ">>),
      Line(<<"y">>), Line(<<"n">>), Line(<<" ", "N", " ">>),
      Line(<<"m">>),
      Line(<<"1">>),
      Line(<<"1", ",", "x">>),
      Line(<<"1", ";", "2">>),
      Line(<<" ", "2", " ", ",", " ", "1", " ">>),
      Line(<<"-", "1", ",", "1">>),
      Line(<<"3", ",", "0">>),
      Line(<<"3", ",", "3">>),
      Line(<<"3", "7", ",", "3">>),             \* 111 cells
      Line(<<"-", "2", "1", "4", "7", "4", "8", "3", "6", "4", "8", ",", "1">>),
      Line(<<"2", "1", "4", "7", "4", "8", "3", "6", "4", "8", ",", "1">>),
      \* 2^32 cells, 2^31 cells and 2^32 + 2 cells
      Line(<<"6", "5", "5", "3", "6", ",", "6", "5", "5", "3", "6">>),
      Line(<<"6", "5", "5", "3", "6", ",", "3", "2", "7", "6", "8">>),
      Line(<<"6", ",", "7", "1", "5", "8", "2", "7", "8", "8", "3">>) }

Lines == PlainPairs \cup OtherLines

\* parse_pair and parse_yn of every input line, computed once.
ParsedPairs == [line \in Lines |-> parse_pair(line)]
ParsedYn == [line \in Lines |-> parse_yn(line)]

\* The outcomes of slice::shuffle for every length, computed once.
Shuffles == [n \in 0..MaxArea |-> Perms(n)]

(***************************************************************************)
(* Game: the parsers and helpers that read the engine's fields.            *)
(***************************************************************************)
\* Game::parse_dimensions from the product p.x * p.y on.
DimensionsOfArea(p, area) ==
    IF ~area.ok THEN Panic
    ELSE IF area.val > MAX_SIZE THEN Err(NotEnoughCardTypes(MAX_SIZE))
    ELSE IF area.val % 2 # 0 THEN Err(OddBoardCells)
    ELSE Ok(p)

\* Game::parse_dimensions from the outcome r of parse_pair on.
DimensionsOf(r, dbg) ==
    IF r.kind = "Err" THEN r
    ELSE IF r.val.x <= 0 THEN Err(CoordinateUnderflow("x"))
    ELSE IF r.val.y <= 0 THEN Err(CoordinateUnderflow("y"))
    ELSE DimensionsOfArea(r.val, Mul(r.val.x, r.val.y, dbg))

\* Game::parse_dimensions
parse_dimensions(s, dbg) == DimensionsOf(ParsedPairs[s], dbg)

\* Game::parse_coords from the differences p.x - 1 and p.y - 1 on.
CoordsAt(cx, cy, ix) ==
    IF ~cx.ok \/ ~cy.ok THEN Panic ELSE IdxOf(ix, Vec2(cx.val, cy.val))

\* Game::parse_coords from the outcome r of parse_pair on.
CoordsOf(r, ix, dbg) ==
    IF r.kind = "Err" THEN r
    ELSE CoordsAt(Dec(r.val.x, dbg), Dec(r.val.y, dbg), ix)

\* Game::parse_coords against the indexer ix
parse_coords(s, ix, dbg) == CoordsOf(ParsedPairs[s], ix, dbg)

\* Game::is_discovered: the bit of c, or a panic (unwrap of None) when the
\* index of c is not an index of the bits.
is_discovered(disc, ix, c, dbg) == Get(disc, Unchecked(ix, c, dbg))

\* The index after i in a sequence of len elements, around the end.
NextIndex(i, len) ==
    IF i.kind = "Panic" \/ ~UsizeLt(i.val, len) THEN Panic
    ELSE Ok((i.val + 1) % len)

\* set_discovered that sets the bit after the one of c.
set_discovered_next(disc, ix, c, dbg) ==
    IF disc.kind = "Panic" \/ c = None THEN Panic
    ELSE SetAt(disc, NextIndex(Unchecked(ix, c[1], dbg), Len(disc.val)), TRUE)

\* Game::set_discovered of self.revealed.N.unwrap(), on the bits that the
\* statements before left: the bits with the bit of the revealed
\* coordinate set, or a panic (unwrap of None, BitSlice::set out of bounds).
set_discovered(disc, ix, c, dbg) ==
    IF disc.kind = "Panic" \/ c = None THEN Panic
    ELSE SetAt(disc, Unchecked(ix, c[1], dbg), TRUE)

\* all_discovered with count_ones() > 0 for count_ones() == len().
all_discovered_any(disc) == \E i \in 1..Len(disc) : disc[i]

\* Game::all_discovered: count_ones() == len()
all_discovered(disc) == \A i \in 1..Len(disc) : disc[i]

\* Game::can_reveal
can_reveal(r1, r2) == r1 = None \/ r2 = None

\* is_revealed that looks at the second slot only.
is_revealed_second(r1, r2, c) == r2 = Some(c)

\* Game::is_revealed
is_revealed(r1, r2, c) == r1 = Some(c) \/ r2 = Some(c)

\* set_revealed that always writes the second slot.
set_revealed_second(r1, r2, c) == <<r1, Some(c)>>

\* Game::set_revealed: the two slots after c is revealed.
set_revealed(r1, r2, c) == IF r1 = None THEN <<Some(c), r2>> ELSE <<r1, Some(c)>>

\* The comparison of Game::revealed_match, of the outcomes of the two reads.
SameCard(c1, c2) ==
    IF c1.kind = "Panic" \/ c2.kind = "Panic" THEN Panic ELSE Ok(c1.val = c2.val)

\* Game::revealed_match: unwrap of both slots, then the two cards compared.
revealed_match(b, r1, r2, dbg) ==
    IF r1 = None \/ r2 = None THEN Panic
    ELSE SameCard(BoardIndex(b, r1[1], dbg), BoardIndex(b, r2[1], dbg))

\* Game::is_running
is_running == state # "Exit"

(***************************************************************************)
(* The state machine.                                                      *)
(***************************************************************************)
\* Game::new, in a build of either profile.
Init ==
    /\ state = "Welcome"
    /\ guesses = 0
    /\ idx = Idx2d(0, 0)
    /\ board = BoardDefault
    /\ discovered = << >>
    /\ revealed1 = None
    /\ revealed2 = None
    /\ error = None
    /\ debug \in BOOLEAN
    /\ panicked = FALSE

\* A panic inside update: the process ends with the fields as they are.
Abort == panicked' = TRUE

\* Game::update in state Welcome, after grab_input read line.
UpdateWelcome(line) ==
    /\ ~panicked
    /\ state = "Welcome"
    /\ error' = None
    /\ state' = "SetDimensions"
    /\ UNCHANGED <<guesses, idx, board, discovered, revealed1, revealed2,
                   debug, panicked>>

\* The number of cells of the board that the dimensions d ask for, when
\* they are accepted.
AreaOf(d) == IF d.kind = "Ok" THEN WrappingMul(d.val.x, d.val.y) ELSE 0

AcceptedArea(line, dbg) == AreaOf(parse_dimensions(line, dbg))

\* The end of Game::set_dimensions and of the arm: b is the outcome of
\* Board::new.
InstallBoard(b) ==
    IF b.kind = "Panic"
    THEN Abort /\ UNCHANGED <<state, board>>
    ELSE /\ board' = b.val
         /\ state' = "Guess"
         /\ UNCHANGED panicked

\* Game::set_dimensions from the accepted dimensions on: bits is the
\* product x * y of bitvec!, a negative one standing for 2^64 + bits
\* (capacity overflow); perm is the outcome of the shuffle.
SetBoard(x, y, bits) ==
    /\ error' = None
    /\ idx' = Idx2d(x, y)
    /\ IF ~bits.ok \/ bits.val < 0
       THEN Abort /\ UNCHANGED <<state, board, discovered>>
       ELSE /\ discovered' = [i \in 1..bits.val |-> FALSE]
            /\ \E perm \in Shuffles[bits.val] :
                 InstallBoard(BoardNew(x, y, perm, debug))

\* Game::set_dimensions and the match on its result: d is the outcome of
\* parse_dimensions.
set_dimensions(line, d) ==
    IF (debug /\ line = << >>) \/ d.kind = "Panic"
    THEN /\ Abort
         /\ error' = None
         /\ UNCHANGED <<state, idx, board, discovered>>
    ELSE IF d.kind = "Err"
    THEN /\ error' = Some(d.err)
         /\ UNCHANGED <<state, idx, board, discovered, panicked>>
    ELSE SetBoard(d.val.x, d.val.y, Mul(d.val.x, d.val.y, debug))

\* Game::update in state SetDimensions, after grab_input read line.
UpdateSetDimensions(line) ==
    /\ ~panicked
    /\ state = "SetDimensions"
    /\ AcceptedArea(line, debug) <= MaxArea
    /\ UNCHANGED <<guesses, revealed1, revealed2, debug>>
    /\ set_dimensions(line, parse_dimensions(line, debug))

\* The end of the arm Guess: match is the outcome of revealed_match.
Resolve(match) ==
    IF match.kind = "Panic"
    THEN Abort /\ UNCHANGED state
    ELSE /\ state' = IF match.val THEN "CorrectGuessConfirm"
                                  ELSE "IncorrectGuessConfirm"
         /\ UNCHANGED panicked

\* Reveal that leaves the error slot as it was.
Reveal_KeepsError(slots) ==
    /\ error' = error
    /\ revealed1' = slots[1]
    /\ revealed2' = slots[2]
    /\ IF can_reveal(slots[1], slots[2])
       THEN UNCHANGED <<state, panicked>>
       ELSE Resolve(revealed_match(board, slots[1], slots[2], debug))

\* The arm Guess from the slots after set_revealed on.
Reveal(slots) ==
    /\ error' = None
    /\ revealed1' = slots[1]
    /\ revealed2' = slots[2]
    /\ IF can_reveal(slots[1], slots[2])
       THEN UNCHANGED <<state, panicked>>
       ELSE Resolve(revealed_match(board, slots[1], slots[2], debug))

\* self.is_revealed(c) || self.is_discovered(c)
Known(c) ==
    IF is_revealed(revealed1, revealed2, c) THEN Ok(TRUE)
    ELSE is_discovered(discovered, idx, c, debug)

\* The arm Guess from the coordinate c on, known being the outcome of
\* self.is_revealed(c) || self.is_discovered(c).
GuessCell(c, known) ==
    IF known.kind = "Panic"
    THEN /\ Abort
         /\ error' = None
         /\ UNCHANGED <<state, revealed1, revealed2>>
    ELSE IF known.val
    THEN /\ error' = Some(AlreadyRevealed(c.x + 1, c.y + 1))
         /\ UNCHANGED <<state, revealed1, revealed2, panicked>>
    ELSE Reveal(IF can_reveal(revealed1, revealed2)
                THEN set_revealed(revealed1, revealed2, c)
                ELSE <<revealed1, revealed2>>)

\* The arm Guess, r being the outcome of parse_coords.
Guess(r) ==
    IF r.kind = "Panic"
    THEN /\ Abort
         /\ error' = None
         /\ UNCHANGED <<state, revealed1, revealed2>>
    ELSE IF r.kind = "Err"
    THEN /\ error' = Some(r.err)
         /\ UNCHANGED <<state, revealed1, revealed2, panicked>>
    ELSE GuessCell(r.val, Known(r.val))

\* Game::update in state Guess, after grab_input read line.
UpdateGuess(line) ==
    /\ ~panicked
    /\ state = "Guess"
    /\ UNCHANGED <<guesses, idx, board, discovered, debug>>
    /\ Guess(parse_coords(line, idx, debug))

\* clear_revealed that clears the second slot only.
clear_revealed_second == revealed1' = revealed1 /\ revealed2' = None

\* Game::clear_revealed
clear_revealed == revealed1' = None /\ revealed2' = None

\* inc_guesses that adds 2.
inc_guesses_twice(g, dbg) == Add(g, 2, dbg)

\* Game::inc_guesses: the counter after the increment.
inc_guesses(g, dbg) == Add(g, 1, dbg)

\* The arm CorrectGuessConfirm: d1 and d2 are the outcomes of the first and
\* of the second set_discovered, g the outcome of inc_guesses.
CorrectGuessConfirm(d1, d2, g) ==
    IF d1.kind = "Panic"
    THEN Abort /\ UNCHANGED <<state, guesses, discovered, revealed1, revealed2>>
    ELSE IF d2.kind = "Panic"
    THEN /\ Abort
         /\ discovered' = d1.val
         /\ UNCHANGED <<state, guesses, revealed1, revealed2>>
    ELSE IF ~g.ok
    THEN /\ Abort
         /\ discovered' = d2.val
         /\ UNCHANGED <<state, guesses, revealed1, revealed2>>
    ELSE /\ discovered' = d2.val
         /\ guesses' = g.val
         /\ clear_revealed
         /\ state' = IF all_discovered(d2.val) THEN "Victory" ELSE "Guess"
         /\ UNCHANGED panicked

\* Game::update in state CorrectGuessConfirm, after grab_input read line.
UpdateCorrectGuessConfirm(line) ==
    /\ ~panicked
    /\ state = "CorrectGuessConfirm"
    /\ guesses < MaxGuesses
    /\ error' = None
    /\ UNCHANGED <<idx, board, debug>>
    /\ CorrectGuessConfirm(
         set_discovered(Ok(discovered), idx, revealed1, debug),
         set_discovered(set_discovered(Ok(discovered), idx, revealed1, debug),
                        idx, revealed2, debug),
         inc_guesses(guesses, debug))

\* UpdateIncorrectGuessConfirm without its assignment of the state.
UpdateIncorrectGuessConfirm_NoAdvance(line) ==
    /\ ~panicked
    /\ state = "IncorrectGuessConfirm"
    /\ guesses < MaxGuesses
    /\ error' = None
    /\ guesses' = guesses + 1
    /\ clear_revealed
    /\ UNCHANGED <<state, idx, board, discovered, debug, panicked>>

\* Game::update in state IncorrectGuessConfirm, after grab_input read line.
UpdateIncorrectGuessConfirm(line) ==
    /\ ~panicked
    /\ state = "IncorrectGuessConfirm"
    /\ guesses < MaxGuesses
    /\ error' = None
    /\ UNCHANGED <<idx, board, discovered, debug>>
    /\ LET g == inc_guesses(guesses, debug)
       IN  IF ~g.ok
           THEN Abort /\ UNCHANGED <<state, guesses, revealed1, revealed2>>
           ELSE /\ guesses' = g.val
                /\ clear_revealed
                /\ state' = "Guess"
                /\ UNCHANGED panicked

\* UpdateVictory that leaves the game on an answer it cannot parse.
UpdateVictory_ErrExits(line) ==
    /\ ~panicked
    /\ state = "Victory"
    /\ UNCHANGED <<guesses, idx, board, discovered, revealed1, revealed2,
                   debug, panicked>>
    /\ LET r == ParsedYn[line]
       IN  IF r.kind = "Err"
           THEN error' = Some(r.err) /\ state' = "Exit"
           ELSE /\ error' = None
                /\ state' = IF r.val THEN "SetDimensions" ELSE "Exit"

\* Game::update in state Victory, after grab_input read line.
UpdateVictory(line) ==
    /\ ~panicked
    /\ state = "Victory"
    /\ UNCHANGED <<guesses, idx, board, discovered, revealed1, revealed2,
                   debug, panicked>>
    /\ LET r == ParsedYn[line]
       IN  IF r.kind = "Err"
           THEN error' = Some(r.err) /\ UNCHANGED state
           ELSE /\ error' = None
                /\ state' = IF r.val THEN "SetDimensions" ELSE "Exit"

\* Game::update in state Exit (the arm `_ => {}`).  The loop of main has
\* ended, so no line is read before it.
UpdateExit ==
    /\ ~panicked
    /\ state = "Exit"
    /\ error' = None
    /\ UNCHANGED <<state, guesses, idx, board, discovered,
                   revealed1, revealed2, debug, panicked>>

Next ==
    \/ \E line \in Lines : UpdateWelcome(line)
    \/ \E line \in Lines : UpdateSetDimensions(line)
    \/ \E line \in Lines : UpdateGuess(line)
    \/ \E line \in Lines : UpdateCorrectGuessConfirm(line)
    \/ \E line \in Lines : UpdateIncorrectGuessConfirm(line)
    \/ \E line \in Lines : UpdateVictory(line)
    \/ UpdateExit

Spec == Init /\ [][Next]_vars

(***************************************************************************)
(* Properties.                                                             *)
(***************************************************************************)
\* The fields of Game other than the input buffer and the error slot.
gameData == <<state, guesses, idx, board, discovered, revealed1, revealed2>>

\* The number of set bits (BitVec::count_ones).
CountOnes(disc) == Cardinality({i \in 1..Len(disc) : disc[i]})

\* The card of the cell at c, c within the board (Index<Vec2> for Board).
CardAt(b, c) == BoardIndex(b, c, debug).val

\* The edges of the transition table of the engine.
TableEdges ==
    { <<"Welcome", "SetDimensions">>,
      <<"SetDimensions", "SetDimensions">>, <<"SetDimensions", "Guess">>,
      <<"Guess", "Guess">>, <<"Guess", "CorrectGuessConfirm">>,
      <<"Guess", "IncorrectGuessConfirm">>,
      <<"CorrectGuessConfirm", "Guess">>, <<"CorrectGuessConfirm", "Victory">>,
      <<"IncorrectGuessConfirm", "Guess">>,
      <<"Victory", "Victory">>, <<"Victory", "SetDimensions">>,
      <<"Victory", "Exit">>,
      <<"Exit", "Exit">> }

\* C1: every step of update moves the state along an edge of the transition
\* table (Welcome only to SetDimensions, whatever the line); in Exit a step
\* changes no field at all; and is_running is false exactly in Exit.
C1_TransitionTable ==
    /\ [][ /\ <<state, state'>> \in TableEdges
           /\ state = "Exit" => UNCHANGED <<gameData, error>> ]_vars
    /\ [](is_running <=> state # "Exit")

\* C1 witness: the engine has been through a game and has reached Exit.
C1_Witness == state = "Exit" /\ ~is_running /\ guesses >= 1

\* The line "2,2", the line "n".
Line22 == Line(<<"2", ",", "2">>)
LineN == Line(<<"n">>)

\* C2 as claimed: on a 2x2 board the auto-advance after the first matching
\* pair of the engine's life ends in Victory with all 4 cells discovered.
C2_Original ==
    [][ (state = "CorrectGuessConfirm" /\ idx = Idx2d(2, 2) /\ guesses = 0)
        => (state' = "Victory" /\ all_discovered(discovered')) ]_vars

\* C2 amended: from Welcome any line leads to SetDimensions; a step of
\* update on "2,2" leads to Guess on a 2x2 board of 4 cells, none discovered; the
\* auto-advance after the first matching pair leads back to Guess with
\* exactly the 2 matched cells discovered; the auto-advance after the second
\* matching pair leads to Victory with all 4 cells discovered; "n" then leads
\* to Exit, where is_running is false.
C2_Scenario ==
    [][ /\ state = "Welcome" => state' = "SetDimensions"
        /\ UpdateSetDimensions(Line22)
           => /\ state' = "Guess"
              /\ idx' = Idx2d(2, 2)
              /\ Len(board'.cards) = 4
              /\ discovered' = <<FALSE, FALSE, FALSE, FALSE>>
        /\ (state = "CorrectGuessConfirm" /\ idx = Idx2d(2, 2)
            /\ CountOnes(discovered) = 0)
           => /\ state' = "Guess"
              /\ CountOnes(discovered') = 2
              /\ ~all_discovered(discovered')
        /\ (state = "CorrectGuessConfirm" /\ idx = Idx2d(2, 2)
            /\ CountOnes(discovered) = 2)
           => /\ state' = "Victory"
              /\ CountOnes(discovered') = 4
              /\ all_discovered(discovered')
        /\ UpdateVictory(LineN)
           => (state' = "Exit" /\ ~is_running') ]_vars

\* C2 witness: the scenario has run to its end on a 2x2 board.
C2_Witness ==
    /\ state = "Exit"
    /\ idx = Idx2d(2, 2)
    /\ guesses = 2
    /\ all_discovered(discovered)

\* The place of the cell and of the bit of c in the sequences of the model,
\* which count from 1: the index that Idx2d::unchecked gives, plus 1.
CellIndex(c) == Unchecked(idx, c, debug).val + 1

\* Whether c has a bit, and the bit is set.
Discovered(c) ==
    /\ CellIndex(c) \in 1..Len(discovered)
    /\ discovered[CellIndex(c)]

\* C3: in Guess, a step of update on a line with a range-valid coordinate c
\* that is neither revealed nor discovered fills the next empty slot with c:
\* the first slot, the state staying Guess, or else the second slot, the
\* state becoming CorrectGuessConfirm when the two cells hold equal cards
\* and IncorrectGuessConfirm when they hold unequal cards.
C3_GuessResolution ==
    [][ \A line \in Lines : UpdateGuess(line) =>
        LET r == parse_coords(line, idx, debug)
        IN  (/\ r.kind = "Ok"
             /\ revealed1 # Some(r.val)
             /\ revealed2 # Some(r.val)
             /\ ~Discovered(r.val))
            => /\ ~panicked'
               /\ error' = None
               /\ revealed1 = None =>
                    /\ revealed1' = Some(r.val)
                    /\ revealed2' = None
                    /\ state' = "Guess"
               /\ (revealed1 # None /\ revealed2 = None) =>
                    /\ revealed1' = revealed1
                    /\ revealed2' = Some(r.val)
                    /\ state' \in {"CorrectGuessConfirm", "IncorrectGuessConfirm"}
                    /\ state' = "CorrectGuessConfirm"
                         <=> CardAt(board, revealed1[1]) = CardAt(board, r.val)
               /\ ~(revealed1 = None /\ revealed2 # None) ]_vars

\* C4: a step from CorrectGuessConfirm, whatever the line, sets the bits of
\* exactly the two revealed cells, adds 1 to the guess count and clears both
\* slots; the state becomes Victory if every cell is then discovered and
\* Guess otherwise.
C4_CorrectAdvance ==
    [][ state = "CorrectGuessConfirm" =>
        /\ ~panicked'
        /\ discovered' = [i \in 1..Len(discovered) |->
                            \/ discovered[i]
                            \/ i = CellIndex(revealed1[1])
                            \/ i = CellIndex(revealed2[1])]
        /\ guesses' = guesses + 1
        /\ revealed1' = None
        /\ revealed2' = None
        /\ state' = IF \A i \in 1..Len(board.cards) : discovered'[i]
                    THEN "Victory" ELSE "Guess"
        /\ UNCHANGED <<idx, board>> ]_vars

\* C4 witness: a pair was matched and half of a 4 cell board is still hidden.
C4_Witness ==
    /\ state = "Guess"
    /\ guesses = 1
    /\ Len(discovered) = 4
    /\ CountOnes(discovered) = 2

\* C5: a step from IncorrectGuessConfirm, whatever the line, leaves the
\* discovered bits as they are, adds 1 to the guess count, clears both slots
\* and moves to Guess; neither of the two cells is then revealed or
\* discovered, so that each can be picked again.
C5_IncorrectAdvance ==
    [][ state = "IncorrectGuessConfirm" =>
        /\ ~panicked'
        /\ discovered' = discovered
        /\ guesses' = guesses + 1
        /\ revealed1' = None
        /\ revealed2' = None
        /\ state' = "Guess"
        /\ UNCHANGED <<idx, board>>
        /\ \A c \in {revealed1[1], revealed2[1]} :
             /\ ~is_revealed(revealed1', revealed2', c)
             /\ ~discovered'[CellIndex(c)] ]_vars

\* C5 witness: after a wrong guess a cell is revealed again.
C5_Witness ==
    /\ state = "Guess"
    /\ guesses = 1
    /\ CountOnes(discovered) = 0
    /\ revealed1 # None
    /\ error = None

\* C6: in Guess, a step of update on a line with a range-valid coordinate that is in a revealed
\* slot or is discovered records AlreadyRevealed with the two numbers of the
\* line, keeps the state Guess and fills no slot.
C6_AlreadyRevealed ==
    [][ \A line \in Lines : UpdateGuess(line) =>
        LET r == parse_coords(line, idx, debug)
            p == ParsedPairs[line].val
        IN  (/\ r.kind = "Ok"
             /\ \/ revealed1 = Some(r.val)
                \/ revealed2 = Some(r.val)
                \/ Discovered(r.val))
            => /\ ~panicked'
               /\ error' = Some(AlreadyRevealed(p.x, p.y))
               /\ state' = "Guess"
               /\ UNCHANGED <<revealed1, revealed2, discovered, guesses>> ]_vars

\* C6 witness: the coordinate of the first slot was picked a second time.
C6_Witness ==
    /\ state = "Guess"
    /\ revealed1 # None
    /\ error = Some(AlreadyRevealed(revealed1[1].x + 1, revealed1[1].y + 1))

\* C7: update never panics, whatever the line and the state.
C7_NeverPanics == ~panicked

\* C8: a step that records an error returns with the state, the board, the
\* indexer, the discovered bits, the revealed slots and the guess count as
\* they were.
C8_ErrorFrame ==
    [][ error' # None => (UNCHANGED gameData /\ ~panicked') ]_vars

\* C8 witness: an error was recorded in the middle of a turn.
C8_Witness ==
    /\ state = "Guess"
    /\ revealed1 # None
    /\ error # None
    /\ error[1].type = "CoordinateOverflow"

\* C9: in SetDimensions update answers a line that parses to the pair (x, y),
\* in this order, by CoordinateUnderflow x if x <= 0, CoordinateUnderflow y
\* if y <= 0, NotEnoughCardTypes(110) if the product of x and y (the exact
\* product: x > 110 div y) exceeds 110, OddBoardCells if the product is odd,
\* and else by the acceptance of (x, y) as the sizes of the board.
C9_DimensionParsing ==
    [][ \A line \in Lines :
        (UpdateSetDimensions(line) /\ ParsedPairs[line].kind = "Ok") =>
        LET p == ParsedPairs[line].val
        IN  IF p.x <= 0 THEN error' = Some(CoordinateUnderflow("x"))
            ELSE IF p.y <= 0 THEN error' = Some(CoordinateUnderflow("y"))
            ELSE IF p.x > 110 \div p.y THEN error' = Some(NotEnoughCardTypes(110))
            ELSE IF p.x % 2 = 1 /\ p.y % 2 = 1 THEN error' = Some(OddBoardCells)
            ELSE /\ error' = None
                 /\ ~panicked'
                 /\ state' = "Guess"
                 /\ idx' = Idx2d(p.x, p.y) ]_vars

IsBlank(line) == Trim(line) = << >>

\* C11: in SetDimensions and in Guess a step of update that returns, on a
\* line that is empty or holds whitespace only (the line terminator alone,
\* for one), records EmptyInput, and a step records UnparsableInput only on a
\* line that is not blank.
C11_EmptyInput ==
    [][ \A line \in Lines :
          ((UpdateSetDimensions(line) \/ UpdateGuess(line)) /\ ~panicked') =>
            /\ IsBlank(line) => error' = Some(EmptyInput)
            /\ error' = Some(UnparsableInput) => ~IsBlank(line) ]_vars

\* The trimmed line in lower case.
Answer(line) == Trim(ToLowercase(line))

\* C12: a step of update in Victory moves to SetDimensions on a line whose
\* trimmed lower case text is "y", moves to Exit on one whose text is "n" or
\* empty, and on every other line records UnparsableInput and stays in
\* Victory; the first two record no error.
C12_VictoryAnswer ==
    [][ \A line \in Lines : UpdateVictory(line) =>
          IF Answer(line) = <<"y">>
          THEN state' = "SetDimensions" /\ error' = None
          ELSE IF Answer(line) \in {<<"n">>, << >>}
          THEN state' = "Exit" /\ error' = None
          ELSE state' = "Victory" /\ error' = Some(UnparsableInput) ]_vars

\* C12 witness: a won game was answered by yes.
C12_Witness ==
    /\ state = "SetDimensions"
    /\ Len(discovered) > 0
    /\ all_discovered(discovered)

(***************************************************************************)
(* Board::new on its own: a board is constructed for sizes that            *)
(* parse_dimensions accepts without a wrapped product, with any outcome of *)
(* the shuffle.                                                            *)
(***************************************************************************)
\* The sizes given to Board::new: positive, of an even product within the
\* bound.
BoardSizes ==
    {s \in (1..MaxSide) \X (1..MaxSide) :
       s[1] * s[2] <= MaxCells /\ (s[1] * s[2]) % 2 = 0}

\* The outcomes of slice::shuffle for the sizes, computed once.
BoardShuffles == [s \in BoardSizes |-> Perms(s[1] * s[2])]

\* Board::new(size_x, size_y) with the shuffle perm, its result kept in board.
NewBoard(size_x, size_y, perm) ==
    /\ ~panicked
    /\ board = BoardDefault
    /\ DimensionsOf(Ok(Vec2(size_x, size_y)), debug) = Ok(Vec2(size_x, size_y))
    /\ InstallBoard(BoardNew(size_x, size_y, perm, debug))
    /\ UNCHANGED <<guesses, idx, discovered, revealed1, revealed2, error, debug>>

BoardNext ==
    \E s \in BoardSizes : \E perm \in BoardShuffles[s] : NewBoard(s[1], s[2], perm)

BoardSpec == Init /\ [][BoardNext]_vars

\* The cells of the board b that hold the card k.
CellsOf(b, k) == {i \in 1..Len(b.cards) : b.cards[i] = k}

\* C13: a board constructed by Board::new for valid sizes of an even
\* product, whatever the shuffle, has width * height cells, every one of the
\* first area / 2 glyphs is on exactly two cells, and no cell holds another
\* glyph or the placeholder; the construction does not panic.
C13_BoardPairs ==
    /\ ~panicked
    /\ LET area == board.idx.size_x * board.idx.size_y
       IN  /\ Len(board.cards) = area
           /\ \A i \in 0..((area \div 2) - 1) :
                Cardinality(CellsOf(board, CardChar(i))) = 2
           /\ \A c \in 1..area :
                \E i \in 0..((area \div 2) - 1) : board.cards[c] = CardChar(i)

\* C13 witness: a board of 6 cells whose first cell holds the third glyph.
C13_Witness ==
    /\ state = "Guess"
    /\ Len(board.cards) = 6
    /\ board.idx = Idx2d(2, 3)
    /\ board.cards[1] = CardChar(2)

\* Whether an update step is a successful SetDimensions step.
BoardRebuilt == state = "SetDimensions" /\ state' = "Guess"

\* C14: in every state of a running engine the discovered bits are set in
\* pairs: of the cells that hold one glyph either all are discovered or none
\* is, and the number of discovered cells is even; and a step that is not a
\* successful SetDimensions step leaves every discovered cell discovered.
C14_DiscoveredPairs ==
    /\ [](~panicked =>
            /\ \A i \in 0..(NumCardChars - 1) :
                 \/ \A c \in CellsOf(board, CardChar(i)) : discovered[c]
                 \/ \A c \in CellsOf(board, CardChar(i)) : ~discovered[c]
            /\ CountOnes(discovered) % 2 = 0)
    /\ [][ (~BoardRebuilt /\ ~panicked') =>
             /\ Len(discovered') = Len(discovered)
             /\ \A c \in 1..Len(discovered) : discovered[c] => discovered'[c] ]_vars

\* C15: in every state the second slot is filled only if the first is and
\* the two slots do not hold the same coordinate; in Guess the second slot is
\* empty; in CorrectGuessConfirm both slots are filled and their cells hold
\* equal cards, in IncorrectGuessConfirm both are filled and their cells hold
\* unequal cards; in Welcome, SetDimensions, Victory and Exit both slots are
\* empty; and a step that fills a slot fills it with a coordinate that is
\* not discovered.
C15_RevealedSlots ==
    /\ [](/\ revealed2 # None => revealed1 # None
          /\ revealed1 # None => revealed1 # revealed2
          /\ state = "Guess" => revealed2 = None
          /\ state = "CorrectGuessConfirm" =>
               /\ revealed1 # None /\ revealed2 # None
               /\ CardAt(board, revealed1[1]) = CardAt(board, revealed2[1])
          /\ state = "IncorrectGuessConfirm" =>
               /\ revealed1 # None /\ revealed2 # None
               /\ CardAt(board, revealed1[1]) # CardAt(board, revealed2[1])
          /\ state \in {"Welcome", "SetDimensions", "Victory", "Exit"} =>
               revealed1 = None /\ revealed2 = None)
    /\ [][ /\ (revealed1' # None /\ revealed1' # revealed1) =>
                (~Discovered(revealed1'[1]) /\ discovered' = discovered)
           /\ (revealed2' # None /\ revealed2' # revealed2) =>
                (~Discovered(revealed2'[1]) /\ discovered' = discovered) ]_vars

\* C15 witness: two cells of unequal cards are in the slots.
C15_Witness ==
    /\ state = "IncorrectGuessConfirm"
    /\ revealed1 # None
    /\ revealed2 # None
    /\ CardAt(board, revealed1[1]) # CardAt(board, revealed2[1])
    /\ guesses = 1

\* C16: after a step of update that returns, the error slot is set exactly
\* if the step failed: in SetDimensions if parse_dimensions returned an error, in Guess
\* if parse_coords returned an error or the coordinate is revealed or
\* discovered, in Victory if parse_yn returned an error, and in no other
\* state; a failed step stays in its state; so an error of an earlier step
\* is never kept, and no error is present in Welcome, CorrectGuessConfirm,
\* IncorrectGuessConfirm or Exit.
C16_ErrorSlot ==
    /\ [][ /\ error' # None =>
                (state \in {"SetDimensions", "Guess", "Victory"} /\ state' = state)
           /\ \A line \in Lines :
                /\ UpdateWelcome(line) => error' = None
                /\ (UpdateSetDimensions(line) /\ ~panicked') =>
                     (error' # None <=> parse_dimensions(line, debug).kind = "Err")
                /\ (UpdateGuess(line) /\ ~panicked') =>
                     (error' # None <=>
                        \/ parse_coords(line, idx, debug).kind = "Err"
                        \/ /\ parse_coords(line, idx, debug).kind = "Ok"
                           /\ \/ is_revealed(revealed1, revealed2,
                                             parse_coords(line, idx, debug).val)
                              \/ Discovered(parse_coords(line, idx, debug).val))
                /\ UpdateCorrectGuessConfirm(line) => error' = None
                /\ UpdateIncorrectGuessConfirm(line) => error' = None
                /\ UpdateVictory(line) =>
                     (error' # None <=> ParsedYn[line].kind = "Err")
           /\ UpdateExit => error' = None ]_vars
    /\ [](state \in {"Welcome", "CorrectGuessConfirm",
                     "IncorrectGuessConfirm", "Exit"} => error = None)

\* C16 witness: the answer to a won game failed to parse.
C16_Witness ==
    /\ state = "Victory"
    /\ error = Some(UnparsableInput)

\* Whether n is the exact product of the sizes of the indexer ix.
IsArea(ix, n) ==
    /\ ~MulOverflows(ix.size_x, ix.size_y)
    /\ n = ix.size_x * ix.size_y

\* C17: a successful SetDimensions step on a line that parses to (w, h), at
\* the first start and after a replay, leaves the indexer of the engine and
\* the indexer of the board with the sizes (w, h), a board of w * h cells,
\* w * h discovered bits that are all false, and both slots empty; and in
\* Guess, CorrectGuessConfirm, IncorrectGuessConfirm and Victory the board is
\* not the default board: it has cells, of an even number.
C17_CreatedTogether ==
    /\ [][ \A line \in Lines : (UpdateSetDimensions(line) /\ BoardRebuilt) =>
             /\ ParsedPairs[line].kind = "Ok"
             /\ idx' = Idx2d(ParsedPairs[line].val.x, ParsedPairs[line].val.y)
             /\ board'.idx = idx'
             /\ IsArea(idx', Len(board'.cards))
             /\ IsArea(idx', Len(discovered'))
             /\ \A c \in 1..Len(discovered') : ~discovered'[c]
             /\ revealed1' = None
             /\ revealed2' = None ]_vars
    /\ [](state \in {"Guess", "CorrectGuessConfirm",
                     "IncorrectGuessConfirm", "Victory"} =>
            /\ board # BoardDefault
            /\ Len(board.cards) > 0
            /\ Len(board.cards) % 2 = 0)

\* C18: in Guess, a line that parses to a pair with px <= 0 is answered by
\* CoordinateUnderflow x, and one with px > 0 and py <= 0 by
\* CoordinateUnderflow y, whatever the sizes of the board are and down to
\* the least i32.
C18_Underflow ==
    state = "Guess" =>
      \A line \in Lines :
        ParsedPairs[line].kind = "Ok" =>
          /\ ParsedPairs[line].val.x <= 0 =>
               parse_coords(line, idx, debug) = Err(CoordinateUnderflow("x"))
          /\ (ParsedPairs[line].val.x > 0 /\ ParsedPairs[line].val.y <= 0) =>
               parse_coords(line, idx, debug) = Err(CoordinateUnderflow("y"))

\* The coordinates that the lines of the model ask for: the parsed pairs,
\* less 1 in either component.
Picks ==
    {Vec2(ParsedPairs[l].val.x - 1, ParsedPairs[l].val.y - 1) :
       l \in {k \in Lines : /\ ParsedPairs[k].kind = "Ok"
                            /\ ParsedPairs[k].val.x > MinI32
                            /\ ParsedPairs[k].val.y > MinI32}}

\* The coordinate that Idx2d::iter_all enumerates at the index i.
CoordAt(ix, i) == Vec2(RemI32(i, ix.size_x), DivI32(i, ix.size_x))

\* C19: for the indexer of the engine, of positive sizes, and every
\* coordinate c within its sizes, the index that Idx2d::unchecked gives is
\* not negative and below width * height, and the coordinate that
\* Idx2d::iter_all enumerates at that index is c again.
C19_RoundTrip ==
    (idx.size_x > 0 /\ idx.size_y > 0) =>
      \A c \in Picks :
        IdxOf(idx, c).kind = "Ok" =>
          /\ Unchecked(idx, c, debug).kind = "Ok"
          /\ Unchecked(idx, c, debug).val >= 0
          /\ ~MulOverflows(idx.size_x, idx.size_y) =>
               Unchecked(idx, c, debug).val < idx.size_x * idx.size_y
          /\ CoordAt(idx, Unchecked(idx, c, debug).val) = c

\* C20: the guess counter starts at 0, a step from CorrectGuessConfirm or
\* IncorrectGuessConfirm adds exactly 1 to it and every other step leaves it
\* as it is, the steps of a replay included; a successful SetDimensions step
\* leaves no cell discovered; and the number of discovered pairs is never
\* above the guess counter.
C20_GuessCounter ==
    /\ (state = "Welcome" => guesses = 0)
    /\ [][ /\ state \in {"CorrectGuessConfirm", "IncorrectGuessConfirm"} =>
                guesses' = guesses + 1
           /\ state \notin {"CorrectGuessConfirm", "IncorrectGuessConfirm"} =>
                guesses' = guesses
           /\ BoardRebuilt => CountOnes(discovered') = 0 ]_vars
    /\ [](guesses >= 0 /\ CountOnes(discovered) \div 2 <= guesses)

\* C20 witness: a board of one pair was won at the second guess of the
\* engine's life, so in a replayed game.
C20_Witness ==
    /\ state = "Victory"
    /\ idx = Idx2d(1, 2)
    /\ all_discovered(discovered)
    /\ guesses = 2
=============================================================================
